---- MODULE Spec2Model ----
(***************************************************************************)
(* Model of the 8weeks Fujimi Landscape business model                     *)
(* (fujimi_business_model.py) and of the Streamlit page built on it        *)
(* (streamlit_app.py).                                                     *)
(*                                                                         *)
(* Numbers.  Python floats and ints are modelled as exact rationals        *)
(* [n |-> numerator, d |-> denominator], kept in lowest terms with d > 0.  *)
(* The IEEE values a division by zero of a numpy.float64 produces are the  *)
(* records with d = 0: Inf, NegInf and NaN.  Python's None is the record   *)
(* None.  Money is in yen, an occupancy rate of 33% is 33/100.             *)
(*                                                                         *)
(* Objects.  model.fixed_costs and model.variable_costs are dicts of       *)
(* dicts.  The inner dicts are objects of the heap; an outer dict is a     *)
(* function from the class name to the reference of its inner dict, so a   *)
(* shallow dict.copy() copies references, not the inner dicts.             *)
(***************************************************************************)
EXTENDS Integers, Sequences, FiniteSets, TLC

VARIABLES
    params,          \* model.params                       (dict name -> value)
    fixed_costs,     \* model.fixed_costs                  (class -> reference)
    variable_costs,  \* model.variable_costs               (class -> reference)
    heap,            \* the inner cost dicts               (reference -> dict)
    call,            \* the last operation: its name, arguments, the model
                     \* as it was when the operation began, and what it returned
    pc,              \* position of the Streamlit main() run
    ui               \* locals of main(): slider values, saved copies, shown values

vars == <<params, fixed_costs, variable_costs, heap, call, pc, ui>>

---------------------------------------------------------------------------
(* Exact rational arithmetic                                               *)

None == [none |-> TRUE]
Inf == [n |-> 1, d |-> 0]
NegInf == [n |-> -1, d |-> 0]
NaN == [n |-> 0, d |-> 0]

Abs(i) == IF i < 0 THEN -i ELSE i

RECURSIVE GCD(_, _)
GCD(a, b) == IF b = 0 THEN a ELSE GCD(b, a % b)

Sign(i) == IF i < 0 THEN -1 ELSE IF i > 0 THEN 1 ELSE 0

\* the rational n/d in lowest terms, d # 0
R(n, d) ==
    LET g == GCD(Abs(n), Abs(d))
        s == Sign(d)
    IN  [n |-> s * (n \div g), d |-> s * (d \div g)]

Z(i) == [n |-> i, d |-> 1]

\* x * y, cross-reduced before multiplying
RMul(x, y) ==
    LET g1 == GCD(Abs(x.n), y.d)
        g2 == GCD(Abs(y.n), x.d)
    IN  IF x.n = 0 \/ y.n = 0 THEN Z(0)
        ELSE [n |-> (x.n \div g1) * (y.n \div g2),
              d |-> (x.d \div g2) * (y.d \div g1)]

\* x / y for y # 0
RDiv(x, y) == RMul(x, R(y.d, y.n))

RAdd(x, y) ==
    LET g == GCD(x.d, y.d)
        l == (x.d \div g) * y.d
    IN  R(x.n * (l \div x.d) + y.n * (l \div y.d), l)

RNeg(x) == [n |-> -x.n, d |-> x.d]
RSub(x, y) == RAdd(x, RNeg(y))

RPos(x) == x.n > 0
RLeq(x, y) == RSub(y, x).n >= 0

\* x + y where y may be Inf, NegInf or NaN (x finite)
XAdd(x, y) == IF y.d = 0 THEN y ELSE RAdd(x, y)

\* Python truthiness of an argument or parameter: None and 0 are falsy
Truthy(x) == x # None /\ x.n # 0

\* Python's `a or b`
Or(a, b) == IF Truthy(a) THEN a ELSE b

RECURSIVE SumValues(_)
\* sum of the values of a dict
SumValues(dict) ==
    IF DOMAIN dict = {} THEN Z(0)
    ELSE LET k == CHOOSE k \in DOMAIN dict : TRUE
             rest == [j \in DOMAIN dict \ {k} |-> dict[j]]
         IN  RAdd(dict[k], SumValues(rest))

---------------------------------------------------------------------------
(* FujimBusinessModel.__init__                                             *)

OWNED_INITIAL_INVESTMENT == 18900000
RENTAL_INITIAL_INVESTMENT == 5500000
AVERAGE_PRICE_PER_NIGHT == 25000
OWNED_PROPERTIES == 15
RENTAL_PROPERTIES == 15
DEPRECIATION_YEARS == 7
MONTHLY_RENT == 70000
DAYS_PER_YEAR == 365

\* 0.33, both the default occupancy and the reference occupancy
BaseOccupancy == R(33, 100)

DefaultParams ==
    [ owned_initial_investment  |-> Z(OWNED_INITIAL_INVESTMENT),
      rental_initial_investment |-> Z(RENTAL_INITIAL_INVESTMENT),
      base_occupancy_rate       |-> BaseOccupancy,
      average_price_per_night   |-> Z(AVERAGE_PRICE_PER_NIGHT),
      owned_properties          |-> Z(OWNED_PROPERTIES),
      rental_properties         |-> Z(RENTAL_PROPERTIES),
      depreciation_years        |-> Z(DEPRECIATION_YEARS),
      monthly_rent              |-> Z(MONTHLY_RENT) ]

DefaultFixedOwned ==
    [ operations_fixed |-> Z(400000),
      utilities_fixed  |-> Z(80000),
      insurance        |-> Z(60000) ]

DefaultFixedRental ==
    [ rent             |-> Z(840000),
      operations_fixed |-> Z(900000),
      utilities_fixed  |-> Z(60000),
      insurance        |-> Z(40000) ]

DefaultVariableOwned ==
    [ operations_variable  |-> RMul(Z(240000), BaseOccupancy),
      utilities_variable   |-> RMul(Z(68000), BaseOccupancy),
      cleaning_maintenance |-> RMul(Z(120000), BaseOccupancy) ]

DefaultVariableRental ==
    [ operations_variable  |-> RMul(Z(594000), BaseOccupancy),
      utilities_variable   |-> RMul(Z(55000), BaseOccupancy),
      cleaning_maintenance |-> RMul(Z(150000), BaseOccupancy) ]

\* references of the four inner dicts __init__ creates
RefFixedOwned == 1
RefFixedRental == 2
RefVariableOwned == 3
RefVariableRental == 4

DefaultHeap ==
    (RefFixedOwned :> DefaultFixedOwned) @@ (RefFixedRental :> DefaultFixedRental)
    @@ (RefVariableOwned :> DefaultVariableOwned)
    @@ (RefVariableRental :> DefaultVariableRental)

DefaultFixedCosts == [owned |-> RefFixedOwned, rental |-> RefFixedRental]
DefaultVariableCosts == [owned |-> RefVariableOwned, rental |-> RefVariableRental]

\* an outer dict with its inner dicts read through the heap
Deref(h, outer) == [c \in DOMAIN outer |-> h[outer[c]]]

---------------------------------------------------------------------------
(* The metrics engine.  P is model.params, FC and VC are model.fixed_costs *)
(* and model.variable_costs read through the heap.  npkeys is the set of   *)
(* parameter names whose value is a numpy.float64 (the parameter a sweep   *)
(* has overridden with a np.linspace value): dividing by a zero            *)
(* numpy.float64, or dividing a numpy.float64 by zero, yields inf or nan,  *)
(* where Python's own numbers raise ZeroDivisionError.                     *)

ZeroDivisionError == [error |-> "ZeroDivisionError"]
Raised(ret) == "error" \in DOMAIN ret

\* calculate_annual_revenue over a year of 360 days
CalculateAnnualRevenue360(occupancy_rate, price_per_night, num_properties) ==
    RMul(RMul(RMul(occupancy_rate, price_per_night), Z(360)), num_properties)

\* calculate_annual_revenue
CalculateAnnualRevenue(occupancy_rate, price_per_night, num_properties) ==
    RMul(RMul(RMul(occupancy_rate, price_per_night), Z(DAYS_PER_YEAR)),
         num_properties)

\* calculate_variable_costs with the occupancy factor capped at the baseline
CalculateVariableCostsCapped(VC, occupancy_rate, property_type, num_properties) ==
    LET factor == RDiv(occupancy_rate, BaseOccupancy)
        occupancy_factor == IF RLeq(factor, Z(1)) THEN factor ELSE Z(1)
        per_property == VC[property_type]
        actual == [k \in DOMAIN per_property |->
                       RMul(per_property[k], occupancy_factor)]
    IN  RMul(SumValues(actual), num_properties)

\* calculate_variable_costs: every entry of the class's dict, scaled by
\* occupancy_rate / 0.33, summed, times the number of properties
CalculateVariableCosts(VC, occupancy_rate, property_type, num_properties) ==
    LET occupancy_factor == RDiv(occupancy_rate, BaseOccupancy)
        per_property == VC[property_type]
        actual == [k \in DOMAIN per_property |->
                       RMul(per_property[k], occupancy_factor)]
    IN  RMul(SumValues(actual), num_properties)

\* the payback guard written as income != 0
PaybackNonZeroIncome(total_investment, income) ==
    IF income.n # 0 THEN RDiv(total_investment, income) ELSE Inf

\* total_investment / income if income > 0 else float('inf')
Payback(total_investment, income) ==
    IF RPos(income) THEN RDiv(total_investment, income) ELSE Inf

\* the ROI division without its guard: x / 0 is inf, 0 / 0 is nan
RoiUnguarded(income, total_investment) ==
    IF total_investment.n # 0
    THEN RMul(RDiv(income, total_investment), Z(100))
    ELSE IF income.n = 0 THEN NaN ELSE IF income.n > 0 THEN Inf ELSE NegInf

\* (income / total_investment) * 100 if total_investment > 0 else 0
Roi(income, total_investment) ==
    IF RPos(total_investment) THEN RMul(RDiv(income, total_investment), Z(100))
    ELSE Z(0)

\* (owned_initial_investment * num_properties) / depreciation_years
Depreciation(P, num_properties, numpy) ==
    LET num == RMul(P.owned_initial_investment, num_properties)
        den == P.depreciation_years
    IN  IF den.n # 0 THEN RDiv(num, den)
        ELSE IF ~numpy THEN ZeroDivisionError
        ELSE IF num.n > 0 THEN Inf
        ELSE IF num.n < 0 THEN NegInf
        ELSE NaN

\* calculate_owned_property_metrics with the depreciation subtracted from NOI
OwnedMetricsNetOfDepreciation(annual_revenue, fixed_costs_total, total_variable_costs, depreciation, total_investment) ==
    LET operating_costs == RAdd(fixed_costs_total, total_variable_costs)
        noi == IF Raised(depreciation) \/ depreciation.d = 0
               THEN RSub(annual_revenue, operating_costs)
               ELSE RSub(RSub(annual_revenue, operating_costs), depreciation)
    IN  IF Raised(depreciation) THEN depreciation
        ELSE [ annual_revenue   |-> annual_revenue,
               noi              |-> noi,
               total_investment |-> total_investment,
               payback_period   |-> Payback(total_investment, noi),
               roi              |-> Roi(noi, total_investment),
               total_costs      |-> XAdd(operating_costs, depreciation),
               operating_costs  |-> operating_costs,
               depreciation     |-> depreciation,
               variable_costs   |-> total_variable_costs ]

\* calculate_owned_property_metrics, from the totals it has computed:
\* NOI, payback period, ROI and the dict returned (lines 104-133)
OwnedMetrics(annual_revenue, fixed_costs_total, total_variable_costs, depreciation, total_investment) ==
    LET operating_costs == RAdd(fixed_costs_total, total_variable_costs)
        noi == RSub(annual_revenue, operating_costs)
    IN  IF Raised(depreciation) THEN depreciation
        ELSE [ annual_revenue   |-> annual_revenue,
               noi              |-> noi,
               total_investment |-> total_investment,
               payback_period   |-> Payback(total_investment, noi),
               roi              |-> Roi(noi, total_investment),
               total_costs      |-> XAdd(operating_costs, depreciation),
               operating_costs  |-> operating_costs,
               depreciation     |-> depreciation,
               variable_costs   |-> total_variable_costs ]

\* fixed_operations_cost + fixed_utilities_cost + insurance_cost (lines 97-99, 105)
OwnedFixedCosts(FC, num_properties) ==
    RAdd(RAdd(RMul(FC.owned.operations_fixed, num_properties),
              RMul(FC.owned.utilities_fixed, num_properties)),
         RMul(FC.owned.insurance, num_properties))

\* calculate_owned_property_metrics with the three defaults substituted
OwnedAt(P, FC, VC, occupancy_rate, price_per_night, num_properties, numpy) ==
    OwnedMetrics(
        CalculateAnnualRevenue(occupancy_rate, price_per_night, num_properties),
        OwnedFixedCosts(FC, num_properties),
        CalculateVariableCosts(VC, occupancy_rate, "owned", num_properties),
        Depreciation(P, num_properties, numpy),
        RMul(P.owned_initial_investment, num_properties))

\* calculate_owned_property_metrics
CalculateOwnedPropertyMetrics(P, FC, VC, occupancy_rate, price_per_night, num_properties, npkeys) ==
    OwnedAt(P, FC, VC,
            Or(occupancy_rate, P.base_occupancy_rate),
            Or(price_per_night, P.average_price_per_night),
            Or(num_properties, P.owned_properties),
            \/ npkeys \cap {"owned_initial_investment", "depreciation_years"} # {}
            \/ ~Truthy(num_properties) /\ "owned_properties" \in npkeys)

\* calculate_rental_property_metrics with a depreciation of the investment
\* over DEPRECIATION_YEARS charged to the rental class
RentalMetricsNetOfDepreciation(annual_revenue, total_fixed_costs, total_variable_costs, total_investment) ==
    LET depreciation == RDiv(total_investment, Z(DEPRECIATION_YEARS))
        total_costs == RAdd(RAdd(total_fixed_costs, total_variable_costs),
                            depreciation)
        operating_profit == RSub(annual_revenue, total_costs)
    IN  [ annual_revenue   |-> annual_revenue,
          operating_profit |-> operating_profit,
          total_investment |-> total_investment,
          payback_period   |-> Payback(total_investment, operating_profit),
          roi              |-> Roi(operating_profit, total_investment),
          total_costs      |-> total_costs,
          fixed_costs      |-> total_fixed_costs,
          variable_costs   |-> total_variable_costs ]

\* calculate_rental_property_metrics, from the totals it has computed
\* (lines 155-177)
RentalMetrics(annual_revenue, total_fixed_costs, total_variable_costs, total_investment) ==
    LET total_costs == RAdd(total_fixed_costs, total_variable_costs)
        operating_profit == RSub(annual_revenue, total_costs)
    IN  [ annual_revenue   |-> annual_revenue,
          operating_profit |-> operating_profit,
          total_investment |-> total_investment,
          payback_period   |-> Payback(total_investment, operating_profit),
          roi              |-> Roi(operating_profit, total_investment),
          total_costs      |-> total_costs,
          fixed_costs      |-> total_fixed_costs,
          variable_costs   |-> total_variable_costs ]

\* the rental fixed costs without the rent
RentalFixedCostsWithoutRent(FC, num_properties) ==
    RAdd(RAdd(RMul(FC.rental.operations_fixed, num_properties),
              RMul(FC.rental.utilities_fixed, num_properties)),
         RMul(FC.rental.insurance, num_properties))

\* rent_cost + fixed_operations_cost + fixed_utilities_cost + insurance_cost
\* (lines 145-150)
RentalFixedCosts(FC, num_properties) ==
    RAdd(RAdd(RAdd(RMul(FC.rental.rent, num_properties),
                   RMul(FC.rental.operations_fixed, num_properties)),
              RMul(FC.rental.utilities_fixed, num_properties)),
         RMul(FC.rental.insurance, num_properties))

\* calculate_rental_property_metrics with the three defaults substituted
RentalAt(P, FC, VC, occupancy_rate, price_per_night, num_properties) ==
    RentalMetrics(
        CalculateAnnualRevenue(occupancy_rate, price_per_night, num_properties),
        RentalFixedCosts(FC, num_properties),
        CalculateVariableCosts(VC, occupancy_rate, "rental", num_properties),
        RMul(P.rental_initial_investment, num_properties))

\* calculate_rental_property_metrics
CalculateRentalPropertyMetrics(P, FC, VC, occupancy_rate, price_per_night, num_properties) ==
    RentalAt(P, FC, VC,
             Or(occupancy_rate, P.base_occupancy_rate),
             Or(price_per_night, P.average_price_per_night),
             Or(num_properties, P.rental_properties))

\* calculate_total_metrics with the portfolio profit taken from the owned
\* class alone
TotalMetricsOwnedProfitOnly(owned_metrics, rental_metrics) ==
    LET total_revenue == RAdd(owned_metrics.annual_revenue,
                              rental_metrics.annual_revenue)
        total_profit == owned_metrics.noi
        total_investment == RAdd(owned_metrics.total_investment,
                                 rental_metrics.total_investment)
    IN  IF Raised(owned_metrics) THEN owned_metrics
        ELSE [ total_revenue    |-> total_revenue,
               total_profit     |-> total_profit,
               total_investment |-> total_investment,
               overall_payback  |-> Payback(total_investment, total_profit),
               overall_roi      |-> Roi(total_profit, total_investment),
               owned_metrics    |-> owned_metrics,
               rental_metrics   |-> rental_metrics ]

\* calculate_total_metrics, from the two class results (lines 184-199)
TotalMetrics(owned_metrics, rental_metrics) ==
    LET total_revenue == RAdd(owned_metrics.annual_revenue,
                              rental_metrics.annual_revenue)
        total_profit == RAdd(owned_metrics.noi, rental_metrics.operating_profit)
        total_investment == RAdd(owned_metrics.total_investment,
                                 rental_metrics.total_investment)
    IN  IF Raised(owned_metrics) THEN owned_metrics
        ELSE [ total_revenue    |-> total_revenue,
               total_profit     |-> total_profit,
               total_investment |-> total_investment,
               overall_payback  |-> Payback(total_investment, total_profit),
               overall_roi      |-> Roi(total_profit, total_investment),
               owned_metrics    |-> owned_metrics,
               rental_metrics   |-> rental_metrics ]

\* calculate_total_metrics
CalculateTotalMetrics(P, FC, VC, occupancy_rate, price_per_night, npkeys) ==
    TotalMetrics(
        CalculateOwnedPropertyMetrics(P, FC, VC, occupancy_rate, price_per_night,
                                      None, npkeys),
        CalculateRentalPropertyMetrics(P, FC, VC, occupancy_rate, price_per_night,
                                       None))

---------------------------------------------------------------------------
(* sensitivity_analysis                                                    *)

\* np.linspace with endpoint=False: the step is (max_val - min_val) / steps
LinspaceHalfOpen(min_val, max_val, steps) ==
    [i \in 1..steps |->
         RAdd(min_val, RMul(RSub(max_val, min_val), R(i - 1, steps)))]

\* np.linspace whose single value for steps = 1 is the upper end
LinspaceSingleAtMax(min_val, max_val, steps) ==
    IF steps = 1 THEN <<max_val>>
    ELSE [i \in 1..steps |->
             RAdd(min_val, RMul(RSub(max_val, min_val), R(i - 1, steps - 1)))]

\* np.linspace(min_val, max_val, steps) for steps >= 1
Linspace(min_val, max_val, steps) ==
    IF steps = 1 THEN <<min_val>>
    ELSE [i \in 1..steps |->
             RAdd(min_val, RMul(RSub(max_val, min_val), R(i - 1, steps - 1)))]

\* self.params[param_name] = val
SetItem(P, param_name, val) ==
    [k \in DOMAIN P \cup {param_name} |-> IF k = param_name THEN val ELSE P[k]]

\* self.params.get(param_name)
GetItem(P, param_name) == IF param_name \in DOMAIN P THEN P[param_name] ELSE None

\* the row appended for one value of the sweep (the first column is named
\* after the swept parameter in the code)
SweepRow(val, metrics) ==
    [ value           |-> val,
      total_profit    |-> metrics.total_profit,
      overall_roi     |-> metrics.overall_roi,
      overall_payback |-> metrics.overall_payback ]

\* the else branch of the loop body without the assignment that puts
\* original_val back
RestoreParamSkipped(P, param_name, val, original_val, metrics) ==
    [params |-> SetItem(P, param_name, val), metrics |-> metrics]

\* the else branch of the loop body once the metrics are computed: the
\* parameter is set back to original_val unless the evaluation raised
RestoreParam(P, param_name, val, original_val, metrics) ==
    IF Raised(metrics)
    THEN [params |-> SetItem(P, param_name, val), metrics |-> metrics]
    ELSE [params |-> SetItem(P, param_name, original_val), metrics |-> metrics]

\* the body of the loop for one value: the metrics, and model.params after it
SweepStep(P, FC, VC, param_name, val) ==
    IF param_name = "occupancy_rate"
    THEN [params |-> P, metrics |-> CalculateTotalMetrics(P, FC, VC, val, None, {})]
    ELSE IF param_name = "price_per_night"
    THEN [params |-> P, metrics |-> CalculateTotalMetrics(P, FC, VC, None, val, {})]
    ELSE RestoreParam(P, param_name, val, GetItem(P, param_name),
                      CalculateTotalMetrics(SetItem(P, param_name, val), FC, VC,
                                            None, None, {param_name}))

\* pd.DataFrame(results): the table of the rows, in the order appended
DataFrame(rows) == [rows |-> rows]

RECURSIVE SweepLoop(_, _, _, _, _, _)
\* the loop over the remaining values, given the outcome of the loop body
\* for the first of them; an exception ends the loop
SweepNext(step, FC, VC, param_name, values, rows) ==
    IF Raised(step.metrics)
    THEN [params |-> step.params, ret |-> step.metrics]
    ELSE SweepLoop(step.params, FC, VC, param_name, Tail(values),
                   Append(rows, SweepRow(Head(values), step.metrics)))

\* the loop over the remaining values
SweepLoop(P, FC, VC, param_name, values, rows) ==
    IF values = <<>> THEN [params |-> P, ret |-> DataFrame(rows)]
    ELSE SweepNext(SweepStep(P, FC, VC, param_name, Head(values)),
                   FC, VC, param_name, values, rows)

\* sensitivity_analysis: model.params afterwards and the table returned
SensitivityAnalysis(P, FC, VC, param_name, min_val, max_val, steps) ==
    SweepLoop(P, FC, VC, param_name, Linspace(min_val, max_val, steps), <<>>)

---------------------------------------------------------------------------
(* scenario_analysis                                                       *)

\* the scenarios dict, in the order of its literal: name (rakkan, kihon,
\* hikan, saiaku in the source), occupancy rate, price per night
Scenarios ==
    << [name |-> "optimistic",  occupancy_rate |-> R(50, 100), price_per_night |-> Z(30000)],
       [name |-> "base",        occupancy_rate |-> R(33, 100), price_per_night |-> Z(25000)],
       [name |-> "pessimistic", occupancy_rate |-> R(25, 100), price_per_night |-> Z(22000)],
       [name |-> "worst",       occupancy_rate |-> R(20, 100), price_per_night |-> Z(20000)] >>

\* the number a fixed-point format with the given count of decimals
\* prints: x rounded to a multiple of 1/scale (scale = 10^decimals), ties to
\* the even digit; inf and nan print as themselves
FormatFixed(x, scale) ==
    IF x.d = 0 THEN x
    ELSE LET y == RMul(x, Z(scale))
             q == y.n \div y.d
             r == y.n % y.d
             up == \/ 2 * r > y.d
                   \/ 2 * r = y.d /\ q % 2 = 1
         IN  R(IF up THEN q + 1 ELSE q, scale)

\* the row appended for one scenario: the name and the formatted columns
ScenarioRow(scenario, metrics) ==
    [ scenario        |-> scenario.name,
      occupancy_rate  |-> FormatFixed(RMul(scenario.occupancy_rate, Z(100)), 1),
      price_per_night |-> scenario.price_per_night,
      total_revenue   |-> FormatFixed(metrics.total_revenue, 1),
      total_profit    |-> FormatFixed(metrics.total_profit, 1),
      overall_roi     |-> FormatFixed(metrics.overall_roi, 10),
      overall_payback |-> FormatFixed(metrics.overall_payback, 10) ]

RECURSIVE ScenarioLoop(_, _, _, _, _)
\* the loop over the remaining scenarios, given the metrics of the first of
\* them; an exception ends the loop
ScenarioNext(metrics, P, FC, VC, scenarios, rows) ==
    IF Raised(metrics) THEN metrics
    ELSE ScenarioLoop(P, FC, VC, Tail(scenarios),
                      Append(rows, ScenarioRow(Head(scenarios), metrics)))

\* the loop over the remaining scenarios
ScenarioLoop(P, FC, VC, scenarios, rows) ==
    IF scenarios = <<>> THEN DataFrame(rows)
    ELSE ScenarioNext(CalculateTotalMetrics(P, FC, VC,
                                            Head(scenarios).occupancy_rate,
                                            Head(scenarios).price_per_night, {}),
                      P, FC, VC, scenarios, rows)

\* scenario_analysis with the scenarios taken in the reverse of their order
ScenarioAnalysisReversed(P, FC, VC) ==
    ScenarioLoop(P, FC, VC,
                 [i \in 1..Len(Scenarios) |-> Scenarios[Len(Scenarios) + 1 - i]],
                 <<>>)

\* scenario_analysis: the table returned
ScenarioAnalysis(P, FC, VC) == ScenarioLoop(P, FC, VC, Scenarios, <<>>)

---------------------------------------------------------------------------
(* Inputs of the engine                                                    *)

MaxSteps == 3

OccupancyArgs == {None, Z(0), R(1, 100), R(33, 100), R(66, 100)}
PriceArgs == {None, Z(0), Z(30000)}
CountArgs == {None, Z(0), Z(10)}
PropertyTypes == {"owned", "rental"}

\* the break-even occupancy, as a rate, of the model at a price: the named
\* fixed entries per unit times the property counts, over the revenue of a
\* full year at that price
BreakEvenOccupancyRate(FC, P, price_per_night) ==
    LET fixed_cost_owned ==
            RMul(RAdd(RAdd(FC.owned.operations_fixed, FC.owned.utilities_fixed),
                      FC.owned.insurance), P.owned_properties)
        fixed_cost_rental ==
            RMul(RAdd(RAdd(RAdd(FC.rental.rent, FC.rental.operations_fixed),
                           FC.rental.utilities_fixed),
                      FC.rental.insurance), P.rental_properties)
        daily_revenue_potential ==
            RMul(price_per_night, RAdd(P.owned_properties, P.rental_properties))
    IN  RDiv(RDiv(RAdd(fixed_cost_owned, fixed_cost_rental),
                  daily_revenue_potential), Z(365))

\* the largest property count of a class for which the evaluation at the
\* break-even occupancy is taken (the yen amounts over 73 of larger
\* portfolios exceed 32 bits)
MaxBreakEvenProperties == 1

\* prices at which the break-even occupancy is taken
BreakEvenPrices == {Z(20000), Z(25000)}

\* swept parameter, min_val, max_val
SweepArgs ==
    { <<"occupancy_rate", Z(0), R(1, 2)>>,
      <<"occupancy_rate", R(15, 100), R(70, 100)>>,
      <<"price_per_night", Z(15000), Z(40000)>>,
      <<"owned_properties", Z(0), Z(30)>>,
      <<"depreciation_years", Z(0), Z(10)>>,
      <<"monthly_rent", Z(60000), Z(80000)>>,
      <<"rent", Z(800000), Z(900000)>>,
      <<"rental_properties", Z(5), Z(30)>>,
      <<"unknown_param", Z(1), Z(2)>> }

\* model.params: the defaults of __init__, and values callers assign
ParamSets ==
    { DefaultParams,
      [DefaultParams EXCEPT !.owned_properties = Z(5)],
      [DefaultParams EXCEPT !.owned_properties = Z(1), !.rental_properties = Z(1)],
      [DefaultParams EXCEPT !.owned_properties = Z(0)],
      [DefaultParams EXCEPT !.owned_properties = Z(0), !.rental_properties = Z(0)],
      [DefaultParams EXCEPT !.owned_initial_investment = Z(0)],
      [DefaultParams EXCEPT !.owned_initial_investment = Z(0),
                            !.rental_initial_investment = Z(0)],
      [DefaultParams EXCEPT !.depreciation_years = Z(5)],
      [DefaultParams EXCEPT !.depreciation_years = Z(0)] }

\* the inner cost dicts: those of __init__, and the fixed cost dicts with
\* one more named entry
ExtraFixedCost == ("property_tax" :> Z(50000))

HeapSets ==
    { DefaultHeap,
      [DefaultHeap EXCEPT ![RefFixedOwned] = ExtraFixedCost @@ DefaultFixedOwned,
                          ![RefFixedRental] = ExtraFixedCost @@ DefaultFixedRental] }

\* the model as an operation finds it
Model == [ params         |-> params,
           fixed_costs    |-> Deref(heap, fixed_costs),
           variable_costs |-> Deref(heap, variable_costs) ]

NoCall == [op |-> "none"]

Init ==
    /\ params \in ParamSets
    /\ heap \in HeapSets
    /\ fixed_costs = DefaultFixedCosts
    /\ variable_costs = DefaultVariableCosts
    /\ call = NoCall
    /\ pc = "idle"
    /\ ui = [none |-> TRUE]

---------------------------------------------------------------------------
(* Calls of the engine                                                     *)

CallOwned(occupancy_rate, price_per_night, num_properties) ==
    /\ pc = "idle" /\ call = NoCall
    /\ call' = [ op   |-> "calculate_owned_property_metrics",
                 args |-> <<occupancy_rate, price_per_night, num_properties>>,
                 pre  |-> Model,
                 ret  |-> CalculateOwnedPropertyMetrics(
                              params, Model.fixed_costs, Model.variable_costs,
                              occupancy_rate, price_per_night, num_properties, {}) ]
    /\ UNCHANGED <<params, fixed_costs, variable_costs, heap, pc, ui>>

CallRental(occupancy_rate, price_per_night, num_properties) ==
    /\ pc = "idle" /\ call = NoCall
    /\ call' = [ op   |-> "calculate_rental_property_metrics",
                 args |-> <<occupancy_rate, price_per_night, num_properties>>,
                 pre  |-> Model,
                 ret  |-> CalculateRentalPropertyMetrics(
                              params, Model.fixed_costs, Model.variable_costs,
                              occupancy_rate, price_per_night, num_properties) ]
    /\ UNCHANGED <<params, fixed_costs, variable_costs, heap, pc, ui>>

CallTotal(occupancy_rate, price_per_night) ==
    /\ pc = "idle" /\ call = NoCall
    /\ call' = [ op   |-> "calculate_total_metrics",
                 args |-> <<occupancy_rate, price_per_night>>,
                 pre  |-> Model,
                 ret  |-> CalculateTotalMetrics(
                              params, Model.fixed_costs, Model.variable_costs,
                              occupancy_rate, price_per_night, {}) ]
    /\ UNCHANGED <<params, fixed_costs, variable_costs, heap, pc, ui>>

CallVariableCosts(occupancy_rate, property_type, num_properties) ==
    /\ pc = "idle" /\ call = NoCall
    /\ call' = [ op   |-> "calculate_variable_costs",
                 args |-> <<occupancy_rate, property_type, num_properties>>,
                 pre  |-> Model,
                 ret  |-> CalculateVariableCosts(Model.variable_costs, occupancy_rate,
                                                 property_type, num_properties) ]
    /\ UNCHANGED <<params, fixed_costs, variable_costs, heap, pc, ui>>

CallSensitivity(param_name, min_val, max_val, steps) ==
    /\ pc = "idle" /\ call = NoCall
    /\ \E run \in {SensitivityAnalysis(params, Model.fixed_costs,
                                        Model.variable_costs,
                                        param_name, min_val, max_val, steps)} :
           /\ params' = run.params
           /\ call' = [ op   |-> "sensitivity_analysis",
                        args |-> <<param_name, min_val, max_val, steps>>,
                        pre  |-> Model,
                        ret  |-> run.ret ]
    /\ UNCHANGED <<fixed_costs, variable_costs, heap, pc, ui>>

CallScenario ==
    /\ pc = "idle" /\ call = NoCall
    /\ call' = [ op   |-> "scenario_analysis",
                 args |-> <<>>,
                 pre  |-> Model,
                 ret  |-> ScenarioAnalysis(params, Model.fixed_costs,
                                           Model.variable_costs) ]
    /\ UNCHANGED <<params, fixed_costs, variable_costs, heap, pc, ui>>

\* the caller has used what the operation returned; the engine is idle again
Return ==
    /\ pc = "idle" /\ call # NoCall
    /\ call' = NoCall
    /\ UNCHANGED <<params, fixed_costs, variable_costs, heap, pc, ui>>

Next ==
    \/ \E o \in OccupancyArgs, p \in PriceArgs, n \in CountArgs : CallOwned(o, p, n)
    \/ \E o \in OccupancyArgs, p \in PriceArgs, n \in CountArgs : CallRental(o, p, n)
    \/ \E o \in OccupancyArgs, p \in PriceArgs : CallTotal(o, p)
    \/ \E p \in BreakEvenPrices :
           /\ RPos(RAdd(params.owned_properties, params.rental_properties))
           /\ RLeq(params.owned_properties, Z(MaxBreakEvenProperties))
           /\ RLeq(params.rental_properties, Z(MaxBreakEvenProperties))
           /\ CallTotal(BreakEvenOccupancyRate(Deref(heap, fixed_costs), params, p), p)
    \/ \E o \in OccupancyArgs \ {None}, t \in PropertyTypes, n \in CountArgs \ {None} :
           CallVariableCosts(o, t, n)
    \/ \E a \in SweepArgs, steps \in 1..MaxSteps :
           CallSensitivity(a[1], a[2], a[3], steps)
    \/ CallScenario
    \/ Return

Spec == Init /\ [][Next]_vars

---------------------------------------------------------------------------
(* streamlit_app.py: one run of main().  load_model() is wrapped in        *)
(* st.cache_data, which hands every run its own copy of the cached model,  *)
(* so a run starts from the model of __init__.  The run is cut into steps  *)
(* at the places the page computes something; pc names the next step.      *)

\* the number of values of each sweep of tab 1 (20 in the code; the first
\* and the last value of a sweep are its end points for every number >= 2)
TabSweepSteps == 2

\* slider values: occupancy in percent, price, the two property counts
OccupancySlider == {15, 33, 70}
PriceSlider == {15000, 25000, 40000}
PropertiesSlider == {5, 15, 30}

\* dict.copy(): a new outer dict holding the same inner dicts
DictCopy(outer) == outer

\* the in-place scalings of the cost-rise scenario, in the order of the code:
\* fixed or variable dict, class, entry, factor
CostRiseScalings ==
    << <<"fixed", "owned", "utilities_fixed", R(14, 10)>>,
       <<"fixed", "rental", "utilities_fixed", R(14, 10)>>,
       <<"variable", "owned", "utilities_variable", R(15, 10)>>,
       <<"variable", "rental", "utilities_variable", R(15, 10)>>,
       <<"fixed", "owned", "operations_fixed", R(125, 100)>>,
       <<"fixed", "rental", "operations_fixed", R(125, 100)>>,
       <<"variable", "owned", "operations_variable", R(13, 10)>>,
       <<"variable", "rental", "operations_variable", R(13, 10)>>,
       <<"fixed", "rental", "rent", R(115, 100)>> >>

\* the in-place scalings of the cost-savings scenario
CostSavingsScalings ==
    << <<"fixed", "owned", "utilities_fixed", R(85, 100)>>,
       <<"fixed", "rental", "utilities_fixed", R(85, 100)>>,
       <<"variable", "owned", "utilities_variable", R(8, 10)>>,
       <<"variable", "rental", "utilities_variable", R(8, 10)>>,
       <<"fixed", "owned", "operations_fixed", R(92, 100)>>,
       <<"fixed", "rental", "operations_fixed", R(92, 100)>>,
       <<"variable", "owned", "operations_variable", R(9, 10)>>,
       <<"variable", "rental", "operations_variable", R(9, 10)>>,
       <<"fixed", "rental", "rent", R(97, 100)>> >>

\* model.<which>_costs[class][entry] *= factor
ScaleEntry(h, fc, vc, scaling) ==
    LET ref == IF scaling[1] = "fixed" THEN fc[scaling[2]] ELSE vc[scaling[2]]
    IN  [h EXCEPT ![ref][scaling[3]] = RMul(@, scaling[4])]

RECURSIVE ApplyScalings(_, _, _, _)
ApplyScalings(h, fc, vc, scalings) ==
    IF scalings = <<>> THEN h
    ELSE ApplyScalings(ScaleEntry(h, fc, vc, Head(scalings)), fc, vc, Tail(scalings))

\* the break-even computation of tab 3 with the rent left out of the
\* rental fixed costs
BreakEvenWithoutRent(FC, owned_properties, rental_properties, price_per_night) ==
    LET fixed_cost_owned ==
            RMul(RAdd(RAdd(FC.owned.operations_fixed, FC.owned.utilities_fixed),
                      FC.owned.insurance), owned_properties)
        fixed_cost_rental ==
            RMul(RAdd(RAdd(FC.rental.operations_fixed, FC.rental.utilities_fixed),
                      FC.rental.insurance), rental_properties)
        total_fixed_costs == RAdd(fixed_cost_owned, fixed_cost_rental)
        total_properties == RAdd(owned_properties, rental_properties)
        daily_revenue_potential == RMul(price_per_night, total_properties)
        breakeven_days == RDiv(total_fixed_costs, daily_revenue_potential)
    IN  [ total_fixed_costs   |-> total_fixed_costs,
          breakeven_occupancy |-> RMul(RDiv(breakeven_days, Z(365)), Z(100)) ]

\* the break-even computation of tab 3 (lines 471-488)
BreakEven(FC, owned_properties, rental_properties, price_per_night) ==
    LET fixed_cost_owned ==
            RMul(RAdd(RAdd(FC.owned.operations_fixed, FC.owned.utilities_fixed),
                      FC.owned.insurance), owned_properties)
        fixed_cost_rental ==
            RMul(RAdd(RAdd(RAdd(FC.rental.rent, FC.rental.operations_fixed),
                           FC.rental.utilities_fixed),
                      FC.rental.insurance), rental_properties)
        total_fixed_costs == RAdd(fixed_cost_owned, fixed_cost_rental)
        total_properties == RAdd(owned_properties, rental_properties)
        daily_revenue_potential == RMul(price_per_night, total_properties)
        breakeven_days == RDiv(total_fixed_costs, daily_revenue_potential)
    IN  [ total_fixed_costs   |-> total_fixed_costs,
          breakeven_occupancy |-> RMul(RDiv(breakeven_days, Z(365)), Z(100)) ]

\* the scenarios dict of tab 2, in the order of its literal (the colour of
\* each scenario is left out)
TabScenarios ==
    << [name |-> "optimistic",  occupancy_rate |-> R(50, 100), price_per_night |-> Z(30000)],
       [name |-> "base",        occupancy_rate |-> R(33, 100), price_per_night |-> Z(25000)],
       [name |-> "pessimistic", occupancy_rate |-> R(25, 100), price_per_night |-> Z(22000)],
       [name |-> "worst",       occupancy_rate |-> R(20, 100), price_per_night |-> Z(20000)] >>

\* the row tab 2 appends for one scenario
TabScenarioRow(scenario, scenario_metrics) ==
    [ scenario        |-> scenario.name,
      occupancy_rate  |-> scenario.occupancy_rate,
      price_per_night |-> scenario.price_per_night,
      overall_roi     |-> scenario_metrics.overall_roi,
      total_profit    |-> scenario_metrics.total_profit,
      overall_payback |-> scenario_metrics.overall_payback ]

\* scenario_results of tab 2 (lines 199-221)
TabScenarioResults(P, FC, VC) ==
    [i \in DOMAIN TabScenarios |->
         TabScenarioRow(TabScenarios[i],
                        CalculateTotalMetrics(P, FC, VC,
                                              TabScenarios[i].occupancy_rate,
                                              TabScenarios[i].price_per_night, {}))]

\* the break-even computation of create_comprehensive_analysis
\* (fujimi_business_model.py lines 489-507): 15 owned and 15 rental
\* properties, 25000 yen per night, 30 properties
ReportBreakEven(FC) ==
    LET fixed_cost_owned ==
            RMul(RAdd(RAdd(FC.owned.operations_fixed, FC.owned.utilities_fixed),
                      FC.owned.insurance), Z(15))
        fixed_cost_total ==
            RAdd(fixed_cost_owned,
                 RMul(RAdd(RAdd(RAdd(FC.rental.rent, FC.rental.operations_fixed),
                                FC.rental.utilities_fixed),
                           FC.rental.insurance), Z(15)))
        daily_revenue_potential == RMul(Z(25000), Z(30))
        breakeven_days == RDiv(fixed_cost_total, daily_revenue_potential)
    IN  [ total_fixed_costs   |-> fixed_cost_total,
          breakeven_occupancy |-> RMul(RDiv(breakeven_days, Z(365)), Z(100)) ]

InitApp ==
    /\ params = DefaultParams
    /\ heap = DefaultHeap
    /\ fixed_costs = DefaultFixedCosts
    /\ variable_costs = DefaultVariableCosts
    /\ call = NoCall
    /\ pc = "start"
    /\ ui = [none |-> TRUE]

\* lines 65-131: the model is loaded, the sliders are read, the property
\* counts are written into model.params, the headline metrics are computed
MainHeadline(occupancy, price, owned_properties, rental_properties) ==
    /\ pc = "start"
    /\ params' = SetItem(SetItem(params, "owned_properties", Z(owned_properties)),
                         "rental_properties", Z(rental_properties))
    /\ ui' = [ occupancy_rate    |-> R(occupancy, 100),
               price_per_night   |-> Z(price),
               owned_properties  |-> Z(owned_properties),
               rental_properties |-> Z(rental_properties),
               metrics |-> CalculateTotalMetrics(
                               params', Deref(heap, fixed_costs),
                               Deref(heap, variable_costs),
                               R(occupancy, 100), Z(price), {}) ]
    /\ pc' = "tab1"
    /\ UNCHANGED <<fixed_costs, variable_costs, heap, call>>

\* lines 136-193: the two sweeps of tab 1, of the occupancy rate from 0.15
\* to 0.70 and of the price from 15000 to 40000, which the tab plots
MainTab1 ==
    /\ pc = "tab1"
    /\ \E occupancy_run \in {SensitivityAnalysis(
                                  params, Deref(heap, fixed_costs),
                                  Deref(heap, variable_costs),
                                  "occupancy_rate", R(15, 100), R(70, 100),
                                  TabSweepSteps)} :
       \E price_run \in {SensitivityAnalysis(
                              occupancy_run.params, Deref(heap, fixed_costs),
                              Deref(heap, variable_costs),
                              "price_per_night", Z(15000), Z(40000),
                              TabSweepSteps)} :
           /\ params' = price_run.params
           /\ ui' = [ occupancy_df |-> occupancy_run.ret,
                      price_df     |-> price_run.ret ] @@ ui
    /\ pc' = "tab2"
    /\ UNCHANGED <<fixed_costs, variable_costs, heap, call>>

\* lines 195-357: the scenario table and the revenue what-ifs of tab 2;
\* the impacts divide by the base profit
MainTab2 ==
    /\ pc = "tab2"
    /\ \E base_metrics \in {CalculateTotalMetrics(
                                params, Deref(heap, fixed_costs),
                                Deref(heap, variable_costs),
                                ui.occupancy_rate, ui.price_per_night, {})} :
           /\ ui' = [ scenario_results |-> TabScenarioResults(
                                               params, Deref(heap, fixed_costs),
                                               Deref(heap, variable_costs)),
                      base_metrics |-> base_metrics ] @@ ui
           /\ pc' = IF base_metrics.total_profit.n = 0 THEN "raised" ELSE "cost_rise"
    /\ UNCHANGED <<params, fixed_costs, variable_costs, heap, call>>

\* lines 361-378: the cost schedules are copied, scaled up in place and
\* evaluated
MainCostRise ==
    /\ pc = "cost_rise"
    /\ heap' = ApplyScalings(heap, fixed_costs, variable_costs, CostRiseScalings)
    /\ ui' = [ costs_before |-> [ fixed_costs    |-> Deref(heap, fixed_costs),
                                  variable_costs |-> Deref(heap, variable_costs) ],
               original_fixed_costs    |-> DictCopy(fixed_costs),
               original_variable_costs |-> DictCopy(variable_costs),
               cost_risk_metrics |-> CalculateTotalMetrics(
                                         params, Deref(heap', fixed_costs),
                                         Deref(heap', variable_costs),
                                         ui.occupancy_rate, ui.price_per_night, {}) ]
             @@ ui
    /\ pc' = "cost_savings"
    /\ UNCHANGED <<params, fixed_costs, variable_costs, call>>

\* lines 380-396: the schedules are reset from the copies, scaled down in
\* place and evaluated
MainCostSavings ==
    /\ pc = "cost_savings"
    /\ fixed_costs' = DictCopy(ui.original_fixed_costs)
    /\ variable_costs' = DictCopy(ui.original_variable_costs)
    /\ heap' = ApplyScalings(heap, fixed_costs', variable_costs', CostSavingsScalings)
    /\ ui' = [ cost_savings_metrics |-> CalculateTotalMetrics(
                                            params, Deref(heap', fixed_costs'),
                                            Deref(heap', variable_costs'),
                                            ui.occupancy_rate, ui.price_per_night,
                                            {}) ]
             @@ ui
    /\ pc' = "restore"
    /\ UNCHANGED <<params, call>>

\* lines 398-400: the saved copies are put back
MainRestore ==
    /\ pc = "restore"
    /\ fixed_costs' = ui.original_fixed_costs
    /\ variable_costs' = ui.original_variable_costs
    /\ pc' = "tab3"
    /\ UNCHANGED <<params, heap, call, ui>>

\* lines 468-488: the break-even point of tab 3
MainTab3 ==
    /\ pc = "tab3"
    /\ ui' = [ breakeven |-> BreakEven(Deref(heap, fixed_costs), ui.owned_properties,
                                       ui.rental_properties, ui.price_per_night) ]
             @@ ui
    /\ pc' = "done"
    /\ UNCHANGED <<params, fixed_costs, variable_costs, heap, call>>

\* a slider is moved: Streamlit runs main() again, on a fresh copy of the
\* cached model
MainRerun ==
    /\ pc \in {"done", "raised"}
    /\ params' = DefaultParams
    /\ heap' = DefaultHeap
    /\ fixed_costs' = DefaultFixedCosts
    /\ variable_costs' = DefaultVariableCosts
    /\ ui' = [none |-> TRUE]
    /\ pc' = "start"
    /\ UNCHANGED call

NextApp ==
    \/ \E o \in OccupancySlider, p \in PriceSlider,
          n \in PropertiesSlider, m \in PropertiesSlider : MainHeadline(o, p, n, m)
    \/ MainTab1
    \/ MainTab2
    \/ MainCostRise
    \/ MainCostSavings
    \/ MainRestore
    \/ MainTab3
    \/ MainRerun

SpecApp == InitApp /\ [][NextApp]_vars

---------------------------------------------------------------------------
(* Properties of the engine, stated over the last call: call.pre is the    *)
(* model as the call found it, call.args its arguments, call.ret what it   *)
(* returned.                                                               *)

Returned(op) == call.op = op /\ ~Raised(call.ret)

\* the class results a call returned: name of the class and its metrics
ClassResults ==
    IF Returned("calculate_owned_property_metrics") THEN {<<"owned", call.ret>>}
    ELSE IF Returned("calculate_rental_property_metrics") THEN {<<"rental", call.ret>>}
    ELSE IF Returned("calculate_total_metrics")
    THEN {<<"owned", call.ret.owned_metrics>>, <<"rental", call.ret.rental_metrics>>}
    ELSE {}

\* operating income of a class result: NOI for owned, operating profit for rental
Income(c) == IF c[1] = "owned" THEN c[2].noi ELSE c[2].operating_profit

\* C1: sensitivity_analysis leaves model.params with the same keys and the
\* same values as before the call, whatever the parameter name.
C1_SweepKeepsParams ==
    call.op = "sensitivity_analysis" => params = call.pre.params

\* a sweep of a name that is no key of model.params has returned
C1_UnknownNameSwept ==
    /\ Returned("sensitivity_analysis")
    /\ call.args[1] \notin DOMAIN call.pre.params

PaybackAsSpecified(payback, total_investment, income) ==
    /\ RPos(income) => payback = RDiv(total_investment, income)
    /\ ~RPos(income) => payback = Inf
    /\ payback = Inf \/ (payback.d > 0 /\ payback.n >= 0)
    /\ payback.d > 0 => RPos(income)

\* C3: the payback period, per class and for the portfolio, is
\* totalInvestment / operatingIncome when the operating income is positive
\* and the infinity sentinel when it is zero or negative; it is never
\* negative, and finite only for a strictly positive operating income.
C3_PaybackSentinel ==
    /\ \A c \in ClassResults :
           PaybackAsSpecified(c[2].payback_period, c[2].total_investment, Income(c))
    /\ Returned("calculate_total_metrics") =>
           PaybackAsSpecified(call.ret.overall_payback, call.ret.total_investment,
                              call.ret.total_profit)
    /\ Returned("sensitivity_analysis") =>
           \A i \in DOMAIN call.ret.rows :
               LET row == call.ret.rows[i]
               IN  /\ ~RPos(row.total_profit) => row.overall_payback = Inf
                   /\ RPos(row.total_profit) =>
                          /\ row.overall_payback.d > 0
                          /\ row.overall_payback.n >= 0

\* an evaluation with negative class income and negative portfolio income
C3_NegativeIncomeSeen ==
    /\ Returned("calculate_total_metrics")
    /\ call.ret.total_profit.n < 0
    /\ call.ret.owned_metrics.noi.n < 0
    /\ call.ret.overall_payback = Inf

RoiAsSpecified(roi, income, total_investment) ==
    /\ RPos(total_investment) =>
           roi = RMul(RDiv(income, total_investment), Z(100))
    /\ total_investment = Z(0) => roi = Z(0)
    /\ roi.d > 0

\* C4: ROI, per class and for the portfolio, is
\* (operatingIncome / totalInvestment) * 100 when the total investment is
\* positive and exactly 0 when it is 0; it is never infinite or undefined.
C4_RoiZeroInvestment ==
    /\ \A c \in ClassResults :
           RoiAsSpecified(c[2].roi, Income(c), c[2].total_investment)
    /\ Returned("calculate_total_metrics") =>
           RoiAsSpecified(call.ret.overall_roi, call.ret.total_profit,
                          call.ret.total_investment)

\* a portfolio with no investment and a nonzero income was evaluated
C4_ZeroInvestmentSeen ==
    /\ Returned("calculate_total_metrics")
    /\ call.ret.total_investment = Z(0)
    /\ call.ret.total_profit.n # 0
    /\ call.ret.overall_roi = Z(0)

\* C5: every portfolio total of calculate_total_metrics is the sum of the
\* two class values of the same result: revenue, operating income
\* (NOI + operating profit) and investment.
C5_TotalsAreSums ==
    Returned("calculate_total_metrics") =>
        /\ call.ret.total_revenue =
               RAdd(call.ret.owned_metrics.annual_revenue,
                    call.ret.rental_metrics.annual_revenue)
        /\ call.ret.total_profit =
               RAdd(call.ret.owned_metrics.noi,
                    call.ret.rental_metrics.operating_profit)
        /\ call.ret.total_investment =
               RAdd(call.ret.owned_metrics.total_investment,
                    call.ret.rental_metrics.total_investment)

\* an evaluation whose two classes differ in revenue, income and investment
C5_DistinctClassesSeen ==
    /\ Returned("calculate_total_metrics")
    /\ call.ret.owned_metrics.annual_revenue # call.ret.rental_metrics.annual_revenue
    /\ call.ret.owned_metrics.noi # call.ret.rental_metrics.operating_profit
    /\ call.ret.rental_metrics.total_investment.n > 0
    /\ call.ret.owned_metrics.total_investment.n > 0

\* an occupancy rate in (0, 1], a price > 0, a property count >= 0
InDomain(occupancy_rate, price_per_night, num_properties) ==
    /\ occupancy_rate # None /\ RPos(occupancy_rate) /\ RLeq(occupancy_rate, Z(1))
    /\ price_per_night # None /\ RPos(price_per_night)
    /\ num_properties # None /\ num_properties.n >= 0

\* C6: for an occupancy rate in (0, 1], a price > 0 and a property
\* count >= 0 (0 included) passed to calculate_owned_property_metrics or
\* calculate_rental_property_metrics, the annual revenue returned is
\* occupancy * price * 365 * count of exactly the values passed.
C6_RevenueOfPassedValues ==
    \A c \in ClassResults :
        (/\ call.op # "calculate_total_metrics"
         /\ InDomain(call.args[1], call.args[2], call.args[3]))
        => c[2].annual_revenue =
               RMul(RMul(RMul(call.args[1], call.args[2]), Z(365)), call.args[3])

\* C7: calculate_total_metrics computes at exactly the occupancy rate and
\* price passed, 0 included: revenue and variable cost of both classes are
\* those of the passed values, so occupancy 0 yields zero revenue and zero
\* variable cost.
C7_ExplicitArgumentsUsed ==
    (/\ Returned("calculate_total_metrics")
     /\ call.args[1] # None /\ call.args[2] # None)
    => /\ call.ret.owned_metrics.annual_revenue =
              CalculateAnnualRevenue(call.args[1], call.args[2],
                                     call.pre.params.owned_properties)
       /\ call.ret.rental_metrics.annual_revenue =
              CalculateAnnualRevenue(call.args[1], call.args[2],
                                     call.pre.params.rental_properties)
       /\ call.ret.owned_metrics.variable_costs =
              CalculateVariableCosts(call.pre.variable_costs, call.args[1], "owned",
                                     call.pre.params.owned_properties)
       /\ call.ret.rental_metrics.variable_costs =
              CalculateVariableCosts(call.pre.variable_costs, call.args[1], "rental",
                                     call.pre.params.rental_properties)
       /\ call.args[1] = Z(0) =>
              /\ call.ret.total_revenue = Z(0)
              /\ call.ret.owned_metrics.variable_costs = Z(0)
              /\ call.ret.rental_metrics.variable_costs = Z(0)

\* C8: calculate_variable_costs is linear in the occupancy rate: the cost
\* at 2r is twice the cost returned at r whenever r and 2r are in (0, 1],
\* and at the reference occupancy 0.33 the cost is the property count times
\* the sum of the class's baseline amounts.
C8_VariableCostLinear ==
    call.op = "calculate_variable_costs" =>
        LET r == call.args[1]
            t == call.args[2]
            n == call.args[3]
        IN  /\ (RPos(r) /\ RLeq(RMul(Z(2), r), Z(1))) =>
                   CalculateVariableCosts(call.pre.variable_costs,
                                          RMul(Z(2), r), t, n)
                       = RMul(Z(2), call.ret)
            /\ r = BaseOccupancy =>
                   call.ret = RMul(SumValues(call.pre.variable_costs[t]), n)

\* the variable cost at the reference occupancy was computed, nonzero
C8_ReferenceOccupancySeen ==
    /\ call.op = "calculate_variable_costs"
    /\ call.args[1] = BaseOccupancy
    /\ call.ret.n > 0

\* the property count a class call computes with (its default substituted)
CountUsed(c) ==
    IF call.op = "calculate_total_metrics" THEN
        (IF c[1] = "owned" THEN call.pre.params.owned_properties
         ELSE call.pre.params.rental_properties)
    ELSE Or(call.args[3],
            IF c[1] = "owned" THEN call.pre.params.owned_properties
            ELSE call.pre.params.rental_properties)

\* the fixed cost total a class result was charged
FixedCharged(c) ==
    IF c[1] = "owned" THEN RSub(c[2].operating_costs, c[2].variable_costs)
    ELSE c[2].fixed_costs

\* C9: the fixed cost total charged to a class is the sum of all entries
\* of the class's fixed_costs mapping times the property count, whatever
\* the mapping holds.
C9_AllFixedEntriesCharged ==
    \A c \in ClassResults :
        FixedCharged(c) = RMul(SumValues(call.pre.fixed_costs[c[1]]), CountUsed(c))

\* the owned metrics of the last call, re-evaluated with another
\* depreciation_years
OwnedWithDepreciationYears(years) ==
    IF call.op = "calculate_total_metrics"
    THEN CalculateOwnedPropertyMetrics(
             [call.pre.params EXCEPT !.depreciation_years = years],
             call.pre.fixed_costs, call.pre.variable_costs,
             call.args[1], call.args[2], None, {})
    ELSE CalculateOwnedPropertyMetrics(
             [call.pre.params EXCEPT !.depreciation_years = years],
             call.pre.fixed_costs, call.pre.variable_costs,
             call.args[1], call.args[2], call.args[3], {})

OtherDepreciationYears == {Z(1), Z(5), Z(7), Z(30)}

\* C10: for the owned class, noi = annual_revenue - operating_costs, where
\* operating_costs is the fixed total charged plus the variable total and
\* holds no depreciation; depreciation =
\* (owned_initial_investment * count) / depreciation_years is reported
\* apart, total_costs = operating_costs + depreciation, and noi, roi and
\* payback_period are the same for every depreciation_years.
C10_NoiExcludesDepreciation ==
    \A c \in ClassResults :
        c[1] = "owned" =>
            /\ c[2].noi = RSub(c[2].annual_revenue, c[2].operating_costs)
            /\ c[2].operating_costs =
                   RAdd(OwnedFixedCosts(call.pre.fixed_costs, CountUsed(c)),
                        c[2].variable_costs)
            /\ c[2].depreciation =
                   RDiv(RMul(call.pre.params.owned_initial_investment, CountUsed(c)),
                        call.pre.params.depreciation_years)
            /\ c[2].total_costs = RAdd(c[2].operating_costs, c[2].depreciation)
            /\ \A years \in OtherDepreciationYears :
                   LET other == OwnedWithDepreciationYears(years)
                   IN  /\ other.noi = c[2].noi
                       /\ other.roi = c[2].roi
                       /\ other.payback_period = c[2].payback_period

\* owned metrics with a nonzero depreciation and a positive NOI were returned
C10_DepreciationSeen ==
    /\ Returned("calculate_owned_property_metrics")
    /\ call.ret.depreciation.n > 0
    /\ call.ret.noi.n > 0
    /\ call.pre.params.depreciation_years # Z(DEPRECIATION_YEARS)

\* the rental metrics of the last call, re-evaluated with another
\* depreciation_years
RentalWithDepreciationYears(years) ==
    IF call.op = "calculate_total_metrics"
    THEN CalculateRentalPropertyMetrics(
             [call.pre.params EXCEPT !.depreciation_years = years],
             call.pre.fixed_costs, call.pre.variable_costs,
             call.args[1], call.args[2], None)
    ELSE CalculateRentalPropertyMetrics(
             [call.pre.params EXCEPT !.depreciation_years = years],
             call.pre.fixed_costs, call.pre.variable_costs,
             call.args[1], call.args[2], call.args[3])

\* the fixed cash entries of the rental class other than the rent
RentalEntriesBesidesRent(FC) ==
    RAdd(RAdd(FC.rental.operations_fixed, FC.rental.utilities_fixed),
         FC.rental.insurance)

\* C11: for the rental class, operating_profit = annual_revenue -
\* total_costs and total_costs = fixed_costs + variable_costs, where
\* fixed_costs holds the rent entry times the property count next to the
\* other fixed entries; the result has no depreciation field and is the
\* same for every depreciation_years, 0 included.
C11_RentalProfitWithoutDepreciation ==
    \A c \in ClassResults :
        c[1] = "rental" =>
            /\ c[2].operating_profit = RSub(c[2].annual_revenue, c[2].total_costs)
            /\ c[2].total_costs = RAdd(c[2].fixed_costs, c[2].variable_costs)
            /\ RSub(c[2].fixed_costs,
                    RMul(call.pre.fixed_costs.rental.rent, CountUsed(c)))
                   = RMul(RentalEntriesBesidesRent(call.pre.fixed_costs),
                          CountUsed(c))
            /\ "depreciation" \notin DOMAIN c[2]
            /\ \A years \in OtherDepreciationYears \cup {Z(0)} :
                   RentalWithDepreciationYears(years) = c[2]

\* rental metrics with rent charged were returned by a model whose
\* depreciation_years is 0
C11_RentalAtZeroYearsSeen ==
    /\ Returned("calculate_rental_property_metrics")
    /\ call.pre.params.depreciation_years = Z(0)
    /\ RPos(RMul(call.pre.fixed_costs.rental.rent, Or(call.args[3], call.pre.params.rental_properties)))
    /\ call.ret.operating_profit.n > 0

\* C12: a sweep with steps >= 2 that returns has exactly `steps` rows;
\* row i (counted from 0) holds min + i * (max - min) / (steps - 1), so the
\* first row holds min, the last holds max, and the values ascend in the
\* order of the rows.
C12_SweepValuesEvenlySpaced ==
    (Returned("sensitivity_analysis") /\ call.args[4] >= 2) =>
        LET min_val == call.args[2]
            max_val == call.args[3]
            steps == call.args[4]
            rows == call.ret.rows
        IN  /\ Len(rows) = steps
            /\ \A i \in 0..(steps - 1) :
                   rows[i + 1].value =
                       RAdd(min_val, RDiv(RMul(Z(i), RSub(max_val, min_val)),
                                          Z(steps - 1)))
            /\ rows[1].value = min_val
            /\ rows[steps].value = max_val
            /\ \A i \in 1..(steps - 1) :
                   RLeq(min_val, max_val) => RLeq(rows[i].value, rows[i + 1].value)

\* a sweep of three or more values over a range with min < max has returned
C12_InteriorValueSeen ==
    /\ Returned("sensitivity_analysis")
    /\ call.args[4] >= 3
    /\ Len(call.ret.rows) >= 3
    /\ call.ret.rows[1].value # call.ret.rows[2].value
    /\ call.ret.rows[2].value # call.args[3]

\* the portfolio metrics at exactly the given occupancy rate and price,
\* with the property counts of P
EvaluateAt(P, FC, VC, occupancy_rate, price_per_night, npkeys) ==
    TotalMetrics(
        OwnedAt(P, FC, VC, occupancy_rate, price_per_night, P.owned_properties,
                npkeys \cap {"owned_initial_investment", "depreciation_years",
                             "owned_properties"} # {}),
        RentalAt(P, FC, VC, occupancy_rate, price_per_night, P.rental_properties))

\* the evaluation of the model with exactly the field f overridden by v
EvaluateWithOverride(M, f, v) ==
    IF f = "occupancy_rate"
    THEN EvaluateAt(M.params, M.fixed_costs, M.variable_costs,
                    v, M.params.average_price_per_night, {})
    ELSE IF f = "price_per_night"
    THEN EvaluateAt(M.params, M.fixed_costs, M.variable_costs,
                    M.params.base_occupancy_rate, v, {})
    ELSE IF f = "rent"
    THEN EvaluateAt(M.params, [M.fixed_costs EXCEPT !.rental.rent = v],
                    M.variable_costs, M.params.base_occupancy_rate,
                    M.params.average_price_per_night, {})
    ELSE EvaluateAt(SetItem(M.params, f, v), M.fixed_costs, M.variable_costs,
                    M.params.base_occupancy_rate,
                    M.params.average_price_per_night, {f})

\* the supported sweep fields that the sweeps of SweepArgs name
SupportedSweepFields ==
    {"occupancy_rate", "price_per_night", "owned_properties",
     "rental_properties", "depreciation_years", "rent"}

\* C13: every row of a sweep of a supported field f holds, for its value
\* v, the total_profit, overall_roi and overall_payback of the evaluation of
\* the model with exactly f overridden by v.
C13_SweepRowIsOverrideEvaluation ==
    (Returned("sensitivity_analysis") /\ call.args[1] \in SupportedSweepFields) =>
        \A i \in DOMAIN call.ret.rows :
            LET row == call.ret.rows[i]
                full == EvaluateWithOverride(call.pre, call.args[1], row.value)
            IN  /\ row.total_profit = full.total_profit
                /\ row.overall_roi = full.overall_roi
                /\ row.overall_payback = full.overall_payback

\* C14: a sweep with steps = 1 either raises or returns exactly one row,
\* whose value is min: the table is never empty and holds no row at max or
\* at any other value.
C14_SingleStepSweepAtMin ==
    (call.op = "sensitivity_analysis" /\ call.args[4] = 1) =>
        \/ Raised(call.ret)
        \/ /\ Len(call.ret.rows) = 1
           /\ call.ret.rows[1].value = call.args[2]
           /\ call.args[2] # call.args[3] => call.ret.rows[1].value # call.args[3]

\* a sweep with steps = 1 over a range with min < max has returned a table
C14_SingleStepSweepSeen ==
    /\ Returned("sensitivity_analysis")
    /\ call.args[4] = 1
    /\ call.args[2] # call.args[3]
    /\ Len(call.ret.rows) = 1

\* the operations that return metrics
MetricsOperations ==
    {"calculate_owned_property_metrics", "calculate_rental_property_metrics",
     "calculate_total_metrics", "sensitivity_analysis"}

\* a model with depreciation_years <= 0, a negative investment or a negative
\* cost entry (the reference occupancy is the literal 0.33 of
\* calculate_variable_costs and cannot be configured)
InvalidConfiguration(M) ==
    \/ ~RPos(M.params.depreciation_years)
    \/ M.params.owned_initial_investment.n < 0
    \/ M.params.rental_initial_investment.n < 0
    \/ \E c \in DOMAIN M.fixed_costs : \E k \in DOMAIN M.fixed_costs[c] :
           M.fixed_costs[c][k].n < 0
    \/ \E c \in DOMAIN M.variable_costs : \E k \in DOMAIN M.variable_costs[c] :
           M.variable_costs[c][k].n < 0

\* a sweep with steps < 2, or one that sets depreciation_years to a value <= 0
InvalidSweep ==
    /\ call.op = "sensitivity_analysis"
    /\ \/ call.args[4] < 2
       \/ /\ call.args[1] = "depreciation_years"
          /\ \E i \in 1..call.args[4] :
                 ~RPos(Linspace(call.args[2], call.args[3], call.args[4])[i])

\* C15: an operation on a model with depreciation_years <= 0 or a negative
\* cost or investment, and a sweep with steps < 2 or through a
\* depreciation_years <= 0, raises an error and returns no metrics.
C15_InvalidConfigurationRejected ==
    (/\ call.op \in MetricsOperations
     /\ InvalidConfiguration(call.pre) \/ InvalidSweep)
    => Raised(call.ret)

\* the names a sweep can address: the keys of model.params and the two
\* arguments of calculate_total_metrics
SweepFieldNames(M) == DOMAIN M.params \cup {"occupancy_rate", "price_per_night"}

\* the names whose value an evaluation reads
FieldsRead ==
    {"occupancy_rate", "price_per_night", "base_occupancy_rate",
     "average_price_per_night", "owned_properties", "rental_properties",
     "owned_initial_investment", "rental_initial_investment",
     "depreciation_years"}

\* the metrics columns of a sweep row
RowMetrics(row) == <<row.total_profit, row.overall_roi, row.overall_payback>>

\* C16: a sweep of a name that is not a field of the parameter set raises
\* and returns no table, and no sweep over two or more values of a name the
\* evaluation does not read returns rows that all hold the same metrics.
C16_UnknownSweepNameRejected ==
    call.op = "sensitivity_analysis" =>
        /\ call.args[1] \notin SweepFieldNames(call.pre) => Raised(call.ret)
        /\ (/\ Returned("sensitivity_analysis")
            /\ call.args[1] \notin FieldsRead
            /\ call.args[4] >= 2)
           => \E i, j \in DOMAIN call.ret.rows :
                  RowMetrics(call.ret.rows[i]) # RowMetrics(call.ret.rows[j])

\* the total revenue of the evaluation an occupancy sweep performs for the
\* value of its row i
SweepPointRevenue(i) ==
    CalculateTotalMetrics(call.pre.params, call.pre.fixed_costs,
                          call.pre.variable_costs, call.ret.rows[i].value,
                          None, {}).total_revenue

\* C17: in a sweep of the occupancy rate over [min, max] with
\* 0 <= min <= max, the total revenue of the evaluation at a sweep point is
\* at most that of the evaluation at every later point.
C17_OccupancySweepRevenueMonotone ==
    (/\ Returned("sensitivity_analysis")
     /\ call.args[1] = "occupancy_rate"
     /\ call.args[2].n >= 0
     /\ RLeq(call.args[2], call.args[3]))
    => \A i, j \in DOMAIN call.ret.rows :
           i < j => RLeq(SweepPointRevenue(i), SweepPointRevenue(j))

\* the scenarios the batch declares, in their order: name, occupancy rate
\* in percent, price per night
DeclaredScenarios ==
    << <<"optimistic", 50, 30000>>, <<"base", 33, 25000>>,
       <<"pessimistic", 25, 22000>>, <<"worst", 20, 20000>> >>

\* C18: scenario_analysis returns one row per declared scenario, in the
\* order optimistic, base, pessimistic, worst; each row shows the metrics of
\* the model as the call found it evaluated at exactly the scenario's
\* occupancy rate and price per night; the model is the same afterwards.
C18_ScenarioRowsInOrder ==
    Returned("scenario_analysis") =>
        /\ Len(call.ret.rows) = Len(DeclaredScenarios)
        /\ \A i \in DOMAIN DeclaredScenarios :
               LET row == call.ret.rows[i]
                   full == EvaluateAt(call.pre.params, call.pre.fixed_costs,
                                      call.pre.variable_costs,
                                      R(DeclaredScenarios[i][2], 100),
                                      Z(DeclaredScenarios[i][3]), {})
               IN  /\ row.scenario = DeclaredScenarios[i][1]
                   /\ row.occupancy_rate = Z(DeclaredScenarios[i][2])
                   /\ row.price_per_night = Z(DeclaredScenarios[i][3])
                   /\ row.total_revenue = FormatFixed(full.total_revenue, 1)
                   /\ row.total_profit = FormatFixed(full.total_profit, 1)
                   /\ row.overall_roi = FormatFixed(full.overall_roi, 10)
                   /\ row.overall_payback = FormatFixed(full.overall_payback, 10)
        /\ Model = call.pre

\* the scenario table of a model with 5 owned properties was returned, its
\* four rows differing in profit
C18_ScenarioTableSeen ==
    /\ Returned("scenario_analysis")
    /\ call.pre.params.owned_properties = Z(5)
    /\ Len(call.ret.rows) = 4
    /\ \A i, j \in 1..4 :
           i < j => call.ret.rows[i].total_profit.n > call.ret.rows[j].total_profit.n

---------------------------------------------------------------------------
(* Properties of a run of main()                                           *)

\* the what-if block of tab 2 is over
AfterWhatIf == pc \in {"tab3", "done"}

\* C2: after the cost-rise and cost-savings what-ifs of main(), every entry
\* of model.fixed_costs and model.variable_costs, owned and rental, has the
\* value it had before the what-if block began.
C2_WhatIfRestoresCosts ==
    AfterWhatIf =>
        /\ Deref(heap, fixed_costs) = ui.costs_before.fixed_costs
        /\ Deref(heap, variable_costs) = ui.costs_before.variable_costs

\* the cash fixed costs of both classes at the given property counts: each
\* named entry times the count of its class
CashFixedCosts(FC, owned_properties, rental_properties) ==
    RAdd(RAdd(RAdd(RMul(FC.owned.operations_fixed, owned_properties),
                   RMul(FC.owned.utilities_fixed, owned_properties)),
              RMul(FC.owned.insurance, owned_properties)),
         RAdd(RAdd(RMul(FC.rental.rent, rental_properties),
                   RMul(FC.rental.operations_fixed, rental_properties)),
              RAdd(RMul(FC.rental.utilities_fixed, rental_properties),
                   RMul(FC.rental.insurance, rental_properties))))

\* totalFixedCosts / (pricePerNight * totalPropertyCount * 365)
BreakEvenRate(total_fixed_costs, price_per_night, total_properties) ==
    RDiv(total_fixed_costs,
         RMul(RMul(price_per_night, total_properties), Z(365)))

\* the model create_comprehensive_analysis constructs
ReportFixedCosts == Deref(DefaultHeap, DefaultFixedCosts)

\* C19: the break-even occupancy, which the code states in percent, is
\* 100 * totalFixedCosts / (pricePerNight * totalPropertyCount * 365), where
\* totalFixedCosts is the sum over both classes of the named cash fixed
\* entries of the model times the class's property count, with no
\* depreciation and no variable cost in it; this holds for the break-even
\* point of tab 3 at the selected counts and price, and for the one of the
\* report at 15 + 15 properties and 25000 yen.
C19_BreakEvenFormula ==
    /\ pc = "done" =>
           /\ ui.breakeven.total_fixed_costs =
                  CashFixedCosts(Deref(heap, fixed_costs), ui.owned_properties,
                                 ui.rental_properties)
           /\ RDiv(ui.breakeven.breakeven_occupancy, Z(100)) =
                  BreakEvenRate(ui.breakeven.total_fixed_costs, ui.price_per_night,
                                RAdd(ui.owned_properties, ui.rental_properties))
    /\ ReportBreakEven(ReportFixedCosts).total_fixed_costs =
           CashFixedCosts(ReportFixedCosts, Z(15), Z(15))
    /\ RDiv(ReportBreakEven(ReportFixedCosts).breakeven_occupancy, Z(100)) =
           RDiv(ReportBreakEven(ReportFixedCosts).total_fixed_costs,
                Z(25000 * 30 * 365))

\* tab 3 has computed the break-even point for 15 + 15 properties at 25000 yen
C19_BreakEvenAtDefaultsSeen ==
    /\ pc = "done"
    /\ ui.owned_properties = Z(15) /\ ui.rental_properties = Z(15)
    /\ ui.price_per_night = Z(25000)
    /\ RPos(ui.breakeven.breakeven_occupancy)

\* what calculate_total_metrics returns on the model of this state
TotalOf(occupancy_rate, price_per_night) ==
    CalculateTotalMetrics(params, Deref(heap, fixed_costs),
                          Deref(heap, variable_costs),
                          occupancy_rate, price_per_night, {})

\* what calculate_total_metrics returned on the model the last operation
\* found
TotalBefore(occupancy_rate, price_per_night) ==
    CalculateTotalMetrics(call.pre.params, call.pre.fixed_costs,
                          call.pre.variable_costs,
                          occupancy_rate, price_per_night, {})

\* C20: calculate_total_metrics leaves model.params, model.fixed_costs and
\* model.variable_costs as it found them and, called again with the same
\* arguments, returns the same result in every field; and after every
\* operation on the model (evaluation, sweep, scenario batch)
\* calculate_total_metrics returns, for all arguments, what it returned
\* before the operation, so a result does not depend on the operations run
\* before it.
C20_EvaluationIsPure ==
    call # NoCall =>
        /\ call.op = "calculate_total_metrics" =>
               /\ Model = call.pre
               /\ call.ret = TotalOf(call.args[1], call.args[2])
        /\ \/ Model = call.pre
           \/ \A o \in OccupancyArgs, p \in PriceArgs :
                  TotalOf(o, p) = TotalBefore(o, p)

\* calculate_total_metrics has returned on a model that sweeps of an unknown
\* name and of the rent have gone over before
C20_EvaluationAfterSweepsSeen ==
    /\ Returned("calculate_total_metrics")
    /\ {"unknown_param", "rent"} \subseteq DOMAIN params
    /\ RPos(call.ret.total_profit)

\* calculate_total_metrics() was called without arguments, or at the default
\* occupancy, on the model as __init__ builds it
DefaultEvaluation ==
    /\ Returned("calculate_total_metrics")
    /\ call.pre.params = DefaultParams
    /\ call.pre.fixed_costs = Deref(DefaultHeap, DefaultFixedCosts)
    /\ call.pre.variable_costs = Deref(DefaultHeap, DefaultVariableCosts)
    /\ call.args \in {<<None, None>>, <<BaseOccupancy, None>>}

\* C21 as stated: a default evaluation of the default model returns owned
\* annual revenue 45,151,875, rental annual revenue 45,151,875 and total
\* revenue 90,303,750.
C21_DefaultRevenueAsStated ==
    DefaultEvaluation =>
        /\ call.ret.owned_metrics.annual_revenue = Z(45151875)
        /\ call.ret.rental_metrics.annual_revenue = Z(45151875)
        /\ call.ret.total_revenue = Z(90303750)

\* C21, amended: a default evaluation of the default model (occupancy 0.33,
\* price 25000, 15 owned and 15 rental properties) returns owned annual
\* revenue 0.33 * 25000 * 365 * 15 = 45,168,750, the same rental annual
\* revenue, and total revenue 90,337,500.
C21_DefaultRevenue ==
    DefaultEvaluation =>
        /\ call.ret.owned_metrics.annual_revenue = Z(45168750)
        /\ call.ret.rental_metrics.annual_revenue = Z(45168750)
        /\ call.ret.total_revenue = Z(90337500)

\* the default model was evaluated without arguments
C21_DefaultEvaluationSeen ==
    /\ DefaultEvaluation
    /\ call.args = <<None, None>>
    /\ RPos(call.ret.total_revenue)

\* the fixed cost total the headline metrics were charged, both classes
HeadlineFixedCosts ==
    RAdd(RSub(ui.metrics.owned_metrics.operating_costs,
              ui.metrics.owned_metrics.variable_costs),
         ui.metrics.rental_metrics.fixed_costs)

\* C22: in a run of main(), the fixed cost total and the break-even
\* occupancy of tab 3 are computed from the per-unit fixed costs the model
\* had before the what-if block of tab 2, those that produced the headline
\* metrics.
C22_BreakEvenUsesHeadlineCosts ==
    pc = "done" =>
        /\ ui.breakeven.total_fixed_costs = HeadlineFixedCosts
        /\ ui.breakeven = BreakEven(ui.costs_before.fixed_costs, ui.owned_properties,
                                    ui.rental_properties, ui.price_per_night)

\* the cost schedules the what-if block found, as a heap of their own
HeapBeforeWhatIf ==
    (RefFixedOwned :> ui.costs_before.fixed_costs.owned)
    @@ (RefFixedRental :> ui.costs_before.fixed_costs.rental)
    @@ (RefVariableOwned :> ui.costs_before.variable_costs.owned)
    @@ (RefVariableRental :> ui.costs_before.variable_costs.rental)

\* the original schedules scaled by the savings factors alone
HeapSavingsOnly ==
    ApplyScalings(HeapBeforeWhatIf, DefaultFixedCosts, DefaultVariableCosts,
                  CostSavingsScalings)

\* C23: the cost-savings metrics of main() are those of the original cost
\* schedules scaled by the savings factors alone (0.85, 0.8, 0.92, 0.9,
\* 0.97); no factor of the cost-rise scenario before it is still in effect.
C23_SavingsOnOriginalCosts ==
    pc \in {"restore", "tab3", "done"} =>
        ui.cost_savings_metrics =
            CalculateTotalMetrics(params, Deref(HeapSavingsOnly, DefaultFixedCosts),
                                  Deref(HeapSavingsOnly, DefaultVariableCosts),
                                  ui.occupancy_rate, ui.price_per_night, {})

\* the last call evaluated the model at its break-even occupancy for the
\* price passed
AtBreakEven ==
    /\ Returned("calculate_total_metrics")
    /\ call.args[2] # None /\ RPos(call.args[2])
    /\ RPos(RAdd(call.pre.params.owned_properties,
                 call.pre.params.rental_properties))
    /\ call.args[1] =
           BreakEvenRate(CashFixedCosts(call.pre.fixed_costs,
                                        call.pre.params.owned_properties,
                                        call.pre.params.rental_properties),
                         call.args[2],
                         RAdd(call.pre.params.owned_properties,
                              call.pre.params.rental_properties))

RoiAt(occupancy_rate, price_per_night) ==
    EvaluateAt(params, Deref(heap, fixed_costs), Deref(heap, variable_costs),
               occupancy_rate, price_per_night, {}).overall_roi

\* C25: the sweeps tab 1 draws are evaluated at the current selection of
\* the inputs they do not sweep: every row of the occupancy sweep holds the
\* ROI at the selected price and property counts, every row of the price
\* sweep the ROI at the selected occupancy and property counts, so a row at
\* the selected value of the swept input holds the headline ROI.
C25_SweepsAtCurrentSelection ==
    pc = "tab2" =>
        /\ \A i \in DOMAIN ui.occupancy_df.rows :
               LET row == ui.occupancy_df.rows[i]
               IN  /\ row.overall_roi = RoiAt(row.value, ui.price_per_night)
                   /\ row.value = ui.occupancy_rate
                          => row.overall_roi = ui.metrics.overall_roi
        /\ \A i \in DOMAIN ui.price_df.rows :
               LET row == ui.price_df.rows[i]
               IN  /\ row.overall_roi = RoiAt(ui.occupancy_rate, row.value)
                   /\ row.value = ui.price_per_night
                          => row.overall_roi = ui.metrics.overall_roi

====
